---- MODULE Spec2Model ----
(***************************************************************************)
(* Model of LeadLagStrategy (src/examples/lead_lag_strategy_live.py): the  *)
(* price histories, jump detection, correlation estimate, signal           *)
(* evaluation, order dispatch and the position sweep of the engine loop.   *)
(*                                                                         *)
(* Numbers.  The program computes in binary floating point; the model      *)
(* computes the same expressions in exact arithmetic (IEEE rounding is not *)
(* modelled).  Units are chosen so that every quantity is an integer or a  *)
(* ratio of small integers:                                                *)
(*   - a price is an integer number of price units of 40000 USD;           *)
(*   - base_position_usd and max_position_usd are in USD;                  *)
(*   - a size is an integer number of 10^-4 units of the instrument (the   *)
(*     4 decimals of round(size, 4)), so that                              *)
(*     size = round(0.98 * position_usd / (4 * price)), and PnL is in      *)
(*     units of 4 USD;                                                     *)
(*   - stop_loss and take_profit are stored multiplied by 10000 (BpsScale);*)
(*   - min_correlation is in hundredths;                                   *)
(*   - the clock is in milliseconds, position_timeout_seconds is in the    *)
(*     same unit (a configuration may give fractions of a second).         *)
(* Prices that enter a correlation are powers of two (or <= 0, which the   *)
(* code skips): a log-return is then an integer multiple of ln 2, and      *)
(* Pearson's coefficient, which is invariant under that common factor, is  *)
(* computed exactly from the exponents.  The coefficient r is carried as   *)
(* its sign and r^2 = num/den.                                             *)
(* A price that is not a number (float("nan")) is the value NaN: the       *)
(* comparisons and the arithmetic that read a price treat it as IEEE does. *)
(***************************************************************************)
EXTENDS Integers, Sequences, FiniteSets, TLC

VARIABLES
    \* configuration (LeadLagStrategy.__init__)
    jump_threshold_bps, min_correlation, lookback_window,
    base_position_usd, max_position_usd, stop_loss_bps, take_profit_bps,
    max_open_positions, position_timeout_seconds,
    \* engine state
    leader_prices, follower_prices, positions, pending_orders,
    trades_executed, trades_won, trades_lost, total_pnl, running,
    \* environment: the wall clock, the order socket (what was sent on it,
    \* the client ids of the sends that raised), the number of market
    \* messages delivered
    now, sent, send_failures,
    \* position of the engine loop, and what the last handlers computed
    fed, pc, jump, signal, event, closes,
    \* what _cleanup has printed and released
    shutdown

cfgvars == <<jump_threshold_bps, min_correlation, lookback_window,
             base_position_usd, max_position_usd, stop_loss_bps,
             take_profit_bps, max_open_positions, position_timeout_seconds>>

statvars == <<trades_executed, trades_won, trades_lost, total_pnl>>

vars == <<cfgvars, leader_prices, follower_prices, positions, pending_orders,
          statvars, running, now, sent, send_failures, fed, pc, jump,
          signal, event, closes, shutdown>>

----------------------------------------------------------------------------
\* Bounds of the model

MaxTime == 2

MaxFeed == 2

MaxFail == 1

MaxExp == 1

MaxJumpPrice == 4

\* Program constants

MinSize == 10

MinReturns == 10

HistoryMargin == 50

BpsScale == 10000

----------------------------------------------------------------------------
\* Exact arithmetic helpers

Abs(x) == IF x < 0 THEN -x ELSE x

Min(a, b) == IF a <= b THEN a ELSE b

RECURSIVE Pow2(_)
Pow2(k) == IF k = 0 THEN 1 ELSE 2 * Pow2(k - 1)

RECURSIVE FracLess(_, _, _, _)
\* a/b < c/d for a, c >= 0 and b, d > 0, by comparing the continued
\* fractions: no product is formed, so no intermediate value overflows.
FracLess(a, b, c, d) ==
    LET qa == a \div b
        qc == c \div d
        ra == a % b
        rc == c % d
    IN  IF qa # qc THEN qa < qc
        ELSE IF rc = 0 THEN FALSE
        ELSE IF ra = 0 THEN TRUE
        ELSE FracLess(d, rc, b, ra)

FracLeq(a, b, c, d) == ~FracLess(c, d, a, b)

\* float("nan"), which float(trade.get("price", 0)) returns for a price
\* given as NaN: a value below every number of the model.  Every comparison
\* with it is false and every arithmetic result from it is NaN again.
NaN == -2000000000

IsNaN(x) == x = NaN

\* x <= y of floats
FloatLeq(x, y) == ~IsNaN(x) /\ ~IsNaN(y) /\ x <= y

\* x >= y of floats
FloatGeq(x, y) == ~IsNaN(x) /\ ~IsNaN(y) /\ x >= y

\* x + y of floats
FloatAdd(x, y) == IF IsNaN(x) \/ IsNaN(y) THEN NaN ELSE x + y

\* x * y of floats, y a number
FloatTimes(x, y) == IF IsNaN(x) THEN NaN ELSE x * y

RECURSIVE SeqSum(_)
SeqSum(s) == IF s = <<>> THEN 0 ELSE Head(s) + SeqSum(Tail(s))

FirstN(s, n) == SubSeq(s, 1, n)

\* s[-n:] of Python for 0 < n <= len(s)
LastN(s, n) == SubSeq(s, Len(s) - n + 1, Len(s))

----------------------------------------------------------------------------
\* Price samples and the bounded histories (deque(maxlen = lookback + 50))

PricePoint(ts, price, vol) ==
    [timestamp_ns |-> ts, price |-> price, volume |-> vol]

Capacity == lookback_window + HistoryMargin

\* a bounded history that refuses the new sample when it is full
DequeAppendDropNewest(prices, pt) ==
    IF Len(prices) >= Capacity THEN prices ELSE Append(prices, pt)

\* a bounded history that starts over when it is full
DequeAppendRestartsWhenFull(prices, pt) ==
    IF Len(prices) >= Capacity THEN <<>> ELSE Append(prices, pt)

DequeAppend(prices, pt) ==
    IF Len(prices) >= Capacity
    THEN IF Capacity = 0 THEN <<>> ELSE Append(Tail(prices), pt)
    ELSE Append(prices, pt)

----------------------------------------------------------------------------
\* _detect_jump: (is_jump, change_bps), change_bps = num / den

NoJump == [is_jump |-> FALSE, num |-> 0, den |-> 1]

DetectJumpNoZeroGuard(prices) ==
    IF Len(prices) < 2 THEN NoJump
    ELSE LET n == Abs(prices[Len(prices)].price
                      - prices[Len(prices) - 1].price) * BpsScale
             d == Abs(prices[Len(prices) - 1].price)
         IN  [is_jump |-> n >= jump_threshold_bps * d, num |-> n, den |-> d]

DetectJumpStrict(prices) ==
    IF Len(prices) < 2 \/ prices[Len(prices) - 1].price = 0 THEN NoJump
    ELSE LET n == Abs(prices[Len(prices)].price
                      - prices[Len(prices) - 1].price) * BpsScale
             d == Abs(prices[Len(prices) - 1].price)
         IN  [is_jump |-> n > jump_threshold_bps * d, num |-> n, den |-> d]

DetectJump(prices) ==
    IF Len(prices) < 2 THEN NoJump
    ELSE LET current_price == prices[Len(prices)].price
             prev_price == prices[Len(prices) - 1].price
         IN  IF prev_price = 0 THEN NoJump
             ELSE IF IsNaN(current_price) \/ IsNaN(prev_price)
             THEN [is_jump |-> FALSE, num |-> NaN, den |-> 1]
             ELSE LET n == Abs(current_price - prev_price) * BpsScale
                      d == Abs(prev_price)
                  IN  [is_jump |-> n >= jump_threshold_bps * d,
                       num |-> n, den |-> d]

----------------------------------------------------------------------------
\* _calculate_correlation

\* np.log of a price, in units of ln 2: defined on the price grid only.
Log2(p) == CHOOSE k \in 0..30 : Pow2(k) = p

RECURSIVE ReturnsRange(_, _, _)
\* the returns ln(list[i+1] / list[i]) for i = lo .. hi; a pair is taken
\* when both prices are > 0, which no price <= 0 and no NaN is
ReturnsRange(list, lo, hi) ==
    IF lo > hi THEN <<>>
    ELSE LET rest == ReturnsRange(list, lo + 1, hi)
         IN  IF list[lo].price > 0 /\ list[lo + 1].price > 0
             THEN <<Log2(list[lo + 1].price) - Log2(list[lo].price)>> \o rest
             ELSE rest

\* for i in range(len(list) - window, len(list) - 1), 0-based
LogReturns(list, window) ==
    ReturnsRange(list, Len(list) - window + 1, Len(list) - 1)

ZeroCorr == [sgn |-> 0, num |-> 0, den |-> 1]

Sign(x) == IF x > 0 THEN 1 ELSE IF x < 0 THEN -1 ELSE 0

\* np.corrcoef(x, y)[0, 1], nan (a zero variance) replaced by 0.0
Pearson(x, y) ==
    LET n == Len(x)
        sx == SeqSum(x)
        sy == SeqSum(y)
        sxy == n * SeqSum([i \in 1..n |-> x[i] * y[i]]) - sx * sy
        sxx == n * SeqSum([i \in 1..n |-> x[i] * x[i]]) - sx * sx
        syy == n * SeqSum([i \in 1..n |-> y[i] * y[i]]) - sy * sy
    IN  IF sxx = 0 \/ syy = 0 \/ sxy = 0 THEN ZeroCorr
        ELSE [sgn |-> Sign(sxy), num |-> sxy * sxy, den |-> sxx * syy]

TooFewReturnsBoth(leader_returns, follower_returns) ==
    Len(leader_returns) < MinReturns /\ Len(follower_returns) < MinReturns

TooFewReturnsNine(leader_returns, follower_returns) ==
    Len(leader_returns) < MinReturns - 1
        \/ Len(follower_returns) < MinReturns - 1

\* len(leader_returns) < 10 or len(follower_returns) < 10
TooFewReturns(leader_returns, follower_returns) ==
    Len(leader_returns) < MinReturns \/ Len(follower_returns) < MinReturns

Correlation(leader, follower) ==
    LET min_size == Min(Len(leader), Len(follower))
    IN  IF min_size < MinSize THEN ZeroCorr
        ELSE LET window == Min(min_size, lookback_window)
                 leader_returns == LogReturns(leader, window)
                 follower_returns == LogReturns(follower, window)
             IN  IF TooFewReturns(leader_returns, follower_returns)
                 THEN ZeroCorr
                 ELSE LET min_len == Min(Len(leader_returns),
                                         Len(follower_returns))
                      IN  IF min_len = 0 THEN ZeroCorr
                          ELSE Pearson(LastN(leader_returns, min_len),
                                       LastN(follower_returns, min_len))

CalculateCorrelation == Correlation(leader_prices, follower_prices)

----------------------------------------------------------------------------
\* _evaluate_trade_signal: the sizing arithmetic.  A quantity that may
\* carry the factor |r| is the record [n, d, irr]: n/d, times |r| if irr.

RECURSIVE Gcd(_, _)
Gcd(a, b) == IF b = 0 THEN a ELSE Gcd(b, a % b)

Rat(n, d) == [n |-> n, d |-> d, irr |-> FALSE]

\* |r| >= a/b, for a >= 0, b > 0
AbsCorrGeq(corr, a, b) ==
    LET g == Gcd(a, b)
    IN  FracLeq((a \div g) * (a \div g), (b \div g) * (b \div g),
                corr.num, corr.den)

\* |r| <= a/b, for a >= 0, b > 0
AbsCorrLeq(corr, a, b) ==
    LET g == Gcd(a, b)
    IN  FracLeq(corr.num, corr.den,
                (a \div g) * (a \div g), (b \div g) * (b \div g))

\* abs(correlation) < self.min_correlation
CorrelationTooLow(corr) == ~AbsCorrGeq(corr, min_correlation, 100)

\* signal_strength = abs(correlation) * (jump_bps / 100.0)
SignalStrength(corr, jb) ==
    IF corr.sgn = 0 \/ jb.num = 0 THEN Rat(0, 1)
    ELSE [n |-> jb.num, d |-> 100 * jb.den, irr |-> TRUE]

SizeMultiplierUncapped(corr, jb) == SignalStrength(corr, jb)

\* size_multiplier = min(signal_strength, 2.0)
SizeMultiplier(corr, jb) ==
    LET s == SignalStrength(corr, jb)
    IN  IF s.irr /\ AbsCorrGeq(corr, 2 * s.d, s.n) THEN Rat(2, 1) ELSE s

\* position_usd = min(base_position_usd * size_multiplier, max_position_usd)
PositionUsd(corr, jb) ==
    LET m == SizeMultiplier(corr, jb)
    IN  IF ~m.irr
        THEN IF base_position_usd * m.n <= max_position_usd * m.d
             THEN Rat(base_position_usd * m.n, m.d)
             ELSE Rat(max_position_usd, 1)
        ELSE IF base_position_usd = 0 THEN Rat(0, 1)
        ELSE IF AbsCorrLeq(corr, max_position_usd * m.d,
                           base_position_usd * m.n)
             THEN [n |-> base_position_usd * m.n, d |-> m.d, irr |-> TRUE]
             ELSE Rat(max_position_usd, 1)

\* round(n / d) of Python: to the nearest integer, a tie to the even one
RoundHalfEven(n, d) ==
    LET q == (2 * n + d) \div (2 * d)
        tie == (2 * n + d) % (2 * d) = 0
    IN  IF tie /\ q % 2 = 1 THEN q - 1 ELSE q

\* round((n / d) * |r|), for 0 < |r| <= 1
RoundScaledCorr(n, d, corr) ==
    LET GeHalf(k) == k = 0 \/ AbsCorrGeq(corr, (2 * k - 1) * d, 2 * n)
        k == CHOOSE c \in 0..(n \div d + 1) :
                 GeHalf(c) /\ \A c2 \in (c + 1)..(n \div d + 1) : ~GeHalf(c2)
        tie == k > 0 /\ AbsCorrLeq(corr, (2 * k - 1) * d, 2 * n)
    IN  IF tie /\ k % 2 = 1 THEN k - 1 ELSE k

\* size = round((position_usd * 0.98) / current_price, 4), in 10^-4 units:
\* round(0.98 * position_usd / (4 * price)), the price in units of 40000 USD
Size(position_usd, corr, current_price) ==
    LET n0 == 49 * position_usd.n
        d0 == 200 * position_usd.d * current_price
        g == Gcd(n0, d0)
        n == n0 \div g
        d == d0 \div g
    IN  IF IsNaN(current_price) THEN NaN
        ELSE IF position_usd.irr THEN RoundScaledCorr(n, d, corr)
        ELSE RoundHalfEven(n, d)

----------------------------------------------------------------------------
\* Orders, positions (a dict in insertion order) and pending orders (a dict)

ClId(t) == <<"leadlag", t>>

CloseId(cl_id) == Append(cl_id, "close")

FollowerSymbol == "follower"

PlaceOrder(cl_id, side, size) ==
    [cl_id |-> cl_id, action |-> "place", symbol |-> FollowerSymbol,
     side |-> side, size |-> size, reduce_only |-> FALSE]

CloseOrderSameSide(pos) ==
    [cl_id |-> CloseId(pos.cl_id), action |-> "place", symbol |-> pos.symbol,
     side |-> pos.side, size |-> pos.size, reduce_only |-> TRUE]

CloseOrder(pos) ==
    [cl_id |-> CloseId(pos.cl_id), action |-> "place", symbol |-> pos.symbol,
     side |-> IF pos.side = "buy" THEN "sell" ELSE "buy",
     size |-> pos.size, reduce_only |-> TRUE]

HasPosition(ps, cl_id) == \E i \in 1..Len(ps) : ps[i].cl_id = cl_id

\* self.positions[cl_id] = pos: an existing key keeps its place
PutPosition(ps, pos) ==
    IF HasPosition(ps, pos.cl_id)
    THEN [i \in 1..Len(ps) |-> IF ps[i].cl_id = pos.cl_id THEN pos ELSE ps[i]]
    ELSE Append(ps, pos)

KeepPosition(ps, cl_id) == ps

\* del self.positions[cl_id]
DelPosition(ps, cl_id) == SelectSeq(ps, LAMBDA q : q.cl_id # cl_id)

PositionIds(ps) == {ps[i].cl_id : i \in 1..Len(ps)}

\* stop_loss and take_profit of a new position, times BpsScale
StopLoss(side, current_price) ==
    IF side = "buy" THEN FloatTimes(current_price, BpsScale - stop_loss_bps)
    ELSE FloatTimes(current_price, BpsScale + stop_loss_bps)

TakeProfit(side, current_price) ==
    IF side = "buy" THEN FloatTimes(current_price, BpsScale + take_profit_bps)
    ELSE FloatTimes(current_price, BpsScale - take_profit_bps)

NewPosition(cl_id, side, current_price, size) ==
    [cl_id |-> cl_id, symbol |-> FollowerSymbol, side |-> side,
     entry_price |-> current_price, size |-> size, entry_time |-> now,
     stop_loss |-> StopLoss(side, current_price),
     take_profit |-> TakeProfit(side, current_price)]

----------------------------------------------------------------------------
\* What the last _process_trades computed (its printed lines)

NotCalled == [called |-> FALSE, is_jump |-> FALSE, num |-> 0, den |-> 1]

Called(j) == [called |-> TRUE, is_jump |-> j.is_jump, num |-> j.num,
              den |-> j.den]

NoSignal ==
    [outcome |-> "none", open_before |-> 0, corr |-> ZeroCorr,
     leader_direction |-> 0, side |-> "none", position_usd |-> Rat(0, 1),
     price |-> 0, size |-> 0, cl_id |-> <<>>]

----------------------------------------------------------------------------
\* _execute_trade(side, position_usd); ok: the send on the order socket
\* does not raise

\* _execute_trade from the size on, at the follower price current_price > 0
SendTrade(side, position_usd, corr, ok, sig, current_price) ==
    LET size == Size(position_usd, corr, current_price)
        cl_id == ClId(now)
        order == PlaceOrder(cl_id, side, size)
        tracked == PutPosition(positions,
                       NewPosition(cl_id, side, current_price, size))
        s2 == [sig EXCEPT !.price = current_price, !.size = size]
    IN  IF FloatLeq(size, 0)
        THEN /\ signal' = [s2 EXCEPT !.outcome = "size_too_small"]
             /\ UNCHANGED <<positions, pending_orders, trades_executed, sent>>
        ELSE IF ok
        THEN /\ positions' = tracked
             /\ sent' = Append(sent, order)
             /\ pending_orders' = (cl_id :> order) @@ pending_orders
             /\ trades_executed' = trades_executed + 1
             /\ signal' = [s2 EXCEPT !.outcome = "sent", !.cl_id = cl_id]
        ELSE /\ positions' = DelPosition(tracked, cl_id)
             /\ signal' = [s2 EXCEPT !.outcome = "send_failed",
                                     !.cl_id = cl_id]
             /\ UNCHANGED <<pending_orders, trades_executed, sent>>

ExecuteTradeCountsAttempt(side, position_usd, corr, ok, sig) ==
    IF Len(follower_prices) = 0
    THEN /\ signal' = [sig EXCEPT !.outcome = "no_follower_price"]
         /\ trades_executed' = trades_executed + 1
         /\ UNCHANGED <<positions, pending_orders, sent>>
    ELSE LET current_price == follower_prices[Len(follower_prices)].price
         IN  IF current_price <= 0
             THEN /\ signal' = [sig EXCEPT !.outcome = "invalid_price",
                                           !.price = current_price]
                  /\ trades_executed' = trades_executed + 1
                  /\ UNCHANGED <<positions, pending_orders, sent>>
             ELSE SendTrade(side, position_usd, corr, ok, sig, current_price)

ExecuteTrade(side, position_usd, corr, ok, sig) ==
    IF Len(follower_prices) = 0
    THEN /\ signal' = [sig EXCEPT !.outcome = "no_follower_price"]
         /\ UNCHANGED <<positions, pending_orders, trades_executed, sent>>
    ELSE LET current_price == follower_prices[Len(follower_prices)].price
         IN  IF FloatLeq(current_price, 0)
             THEN /\ signal' = [sig EXCEPT !.outcome = "invalid_price",
                                           !.price = current_price]
                  /\ UNCHANGED <<positions, pending_orders, trades_executed,
                                 sent>>
             ELSE SendTrade(side, position_usd, corr, ok, sig, current_price)

----------------------------------------------------------------------------
\* _evaluate_trade_signal(jump_bps), called with the leader history `leader`
\* that already holds the new sample

LeaderDirection(leader) ==
    IF leader[Len(leader)].price > leader[Len(leader) - 1].price THEN 1
    ELSE -1

TradeDirection(leader_direction, corr) ==
    IF corr.sgn > 0 THEN leader_direction ELSE -leader_direction

MaxPositionsReachedStrict(ps) == Len(ps) > max_open_positions

MaxPositionsReachedEarly(ps) == Len(ps) + 1 >= max_open_positions

MaxPositionsReachedByPending(ps) ==
    Cardinality(DOMAIN pending_orders) >= max_open_positions

\* len(self.positions) >= self.max_open_positions
MaxPositionsReached(ps) == Len(ps) >= max_open_positions

EvaluateTradeSignal(leader, jb, ok) ==
    LET sig0 == [NoSignal EXCEPT !.open_before = Len(positions)]
    IN  IF MaxPositionsReached(positions)
        THEN /\ signal' = [sig0 EXCEPT !.outcome = "max_positions"]
             /\ UNCHANGED <<positions, pending_orders, trades_executed, sent>>
        ELSE LET correlation == Correlation(leader, follower_prices)
                 sig1 == [sig0 EXCEPT !.corr = correlation]
             IN  IF CorrelationTooLow(correlation)
                 THEN /\ signal' = [sig1 EXCEPT !.outcome = "low_correlation"]
                      /\ UNCHANGED <<positions, pending_orders,
                                     trades_executed, sent>>
                 ELSE IF Len(leader) < 2
                 THEN /\ signal' = [sig1 EXCEPT !.outcome = "no_leader_pair"]
                      /\ UNCHANGED <<positions, pending_orders,
                                     trades_executed, sent>>
                 ELSE LET leader_direction == LeaderDirection(leader)
                          trade_direction ==
                              TradeDirection(leader_direction, correlation)
                          side == IF trade_direction > 0 THEN "buy"
                                  ELSE "sell"
                          position_usd == PositionUsd(correlation, jb)
                          sig2 == [sig1 EXCEPT
                                      !.leader_direction = leader_direction,
                                      !.side = side,
                                      !.position_usd = position_usd]
                      IN  ExecuteTrade(side, position_usd, correlation, ok,
                                       sig2)

----------------------------------------------------------------------------
\* _manage_positions: the checks of one position at follower price `price`

StopLossHit(pos, price) ==
    \/ pos.side = "buy"
           /\ FloatLeq(FloatTimes(price, BpsScale), pos.stop_loss)
    \/ pos.side = "sell"
           /\ FloatGeq(FloatTimes(price, BpsScale), pos.stop_loss)

TakeProfitHit(pos, price) ==
    \/ pos.side = "buy"
           /\ FloatGeq(FloatTimes(price, BpsScale), pos.take_profit)
    \/ pos.side = "sell"
           /\ FloatLeq(FloatTimes(price, BpsScale), pos.take_profit)

TimedOutLate(pos, current_time) ==
    current_time - pos.entry_time > position_timeout_seconds + 1

\* age > self.position_timeout_seconds
TimedOut(pos, current_time) ==
    current_time - pos.entry_time > position_timeout_seconds

ShouldClose(pos, price, current_time) ==
    StopLossHit(pos, price) \/ TakeProfitHit(pos, price)
        \/ TimedOut(pos, current_time)

\* three independent ifs: the last assignment of reason stands
CloseReason(pos, price, current_time) ==
    IF TimedOut(pos, current_time) THEN "timeout"
    ELSE IF TakeProfitHit(pos, price) THEN "take_profit"
    ELSE IF StopLossHit(pos, price) THEN "stop_loss"
    ELSE "none"

PnlLongOnly(pos, price) == (price - pos.entry_price) * pos.size

Pnl(pos, price) ==
    IF IsNaN(price) \/ IsNaN(pos.entry_price) \/ IsNaN(pos.size) THEN NaN
    ELSE IF pos.side = "buy" THEN (price - pos.entry_price) * pos.size
    ELSE (pos.entry_price - price) * pos.size

\* the ids the sweep will try to close
ClosingIds(ps, price, current_time) ==
    {ps[i].cl_id : i \in {k \in 1..Len(ps) :
                              ShouldClose(ps[k], price, current_time)}}

SweepStart ==
    [won |-> trades_won, lost |-> trades_lost, pnl |-> total_pnl,
     to_close |-> {}, sent |-> sent, closes |-> closes]

RECURSIVE SweepFirstCloseOnly(_, _, _, _, _, _)
SweepFirstCloseOnly(ps, i, price, current_time, fails, acc) ==
    IF i > Len(ps) THEN acc
    ELSE LET pos == ps[i]
             sl == StopLossHit(pos, price)
             tp == TakeProfitHit(pos, price)
             pnl == Pnl(pos, price)
             ok == pos.cl_id \notin fails
             a1 == [acc EXCEPT !.lost = @ + (IF sl THEN 1 ELSE 0),
                               !.won = @ + (IF tp THEN 1 ELSE 0)]
         IN  IF ~ShouldClose(pos, price, current_time)
             THEN SweepFirstCloseOnly(ps, i + 1, price, current_time, fails,
                                      a1)
             ELSE [a1 EXCEPT
                       !.pnl = FloatAdd(@, pnl),
                       !.sent = IF ok THEN Append(@, CloseOrder(pos)) ELSE @,
                       !.to_close = IF ok THEN @ \cup {pos.cl_id} ELSE @,
                       !.closes = Append(@,
                           [cl_id |-> pos.cl_id, side |-> pos.side,
                            reason |-> CloseReason(pos, price, current_time),
                            pnl |-> pnl, price |-> price,
                            age |-> current_time - pos.entry_time,
                            sl |-> sl, tp |-> tp, dispatched |-> ok])]

RECURSIVE Sweep(_, _, _, _, _, _)
\* the body of "for cl_id, pos in self.positions.items()" from position i
\* on; fails: the ids whose closing send raises
Sweep(ps, i, price, current_time, fails, acc) ==
    IF i > Len(ps) THEN acc
    ELSE LET pos == ps[i]
             sl == StopLossHit(pos, price)
             tp == TakeProfitHit(pos, price)
             pnl == Pnl(pos, price)
             ok == pos.cl_id \notin fails
             a1 == [acc EXCEPT !.lost = @ + (IF sl THEN 1 ELSE 0),
                               !.won = @ + (IF tp THEN 1 ELSE 0)]
             a2 == IF ~ShouldClose(pos, price, current_time) THEN a1
                   ELSE [a1 EXCEPT
                       !.pnl = FloatAdd(@, pnl),
                       !.sent = IF ok THEN Append(@, CloseOrder(pos)) ELSE @,
                       !.to_close = IF ok THEN @ \cup {pos.cl_id} ELSE @,
                       !.closes = Append(@,
                           [cl_id |-> pos.cl_id, side |-> pos.side,
                            reason |-> CloseReason(pos, price, current_time),
                            pnl |-> pnl, price |-> price,
                            age |-> current_time - pos.entry_time,
                            sl |-> sl, tp |-> tp, dispatched |-> ok])]
         IN  Sweep(ps, i + 1, price, current_time, fails, a2)

----------------------------------------------------------------------------
\* The engine loop (run): pc is the next call of the loop body

PriceSet == {0} \cup {Pow2(k) : k \in 0..MaxExp}

\* _process_trades, a trade of the leader symbol
LeaderTrade(ts, price, ok) ==
    /\ pc = "trades"
    /\ fed < MaxFeed
    /\ LET leader == DequeAppend(leader_prices, PricePoint(ts, price, 1))
           j == DetectJump(leader)
       IN  /\ leader_prices' = leader
           /\ jump' = Called(j)
           /\ IF j.is_jump
              THEN EvaluateTradeSignal(leader, j, ok)
              ELSE /\ signal' = NoSignal
                   /\ UNCHANGED <<positions, pending_orders, trades_executed,
                                  sent>>
    /\ send_failures' =
           IF signal'.outcome = "send_failed"
           THEN Append(send_failures, signal'.cl_id)
           ELSE send_failures
    /\ fed' = fed + 1
    /\ pc' = "reports"
    /\ UNCHANGED <<cfgvars, follower_prices, trades_won, trades_lost,
                   total_pnl, running, now, event, closes, shutdown>>

\* _process_trades, a trade of the follower symbol
FollowerTrade(ts, price) ==
    /\ pc = "trades"
    /\ fed < MaxFeed
    /\ follower_prices' =
           DequeAppend(follower_prices, PricePoint(ts, price, 1))
    /\ jump' = NotCalled
    /\ signal' = NoSignal
    /\ fed' = fed + 1
    /\ pc' = "reports"
    /\ UNCHANGED <<cfgvars, leader_prices, positions, pending_orders,
                   statvars, running, now, sent, send_failures, event, closes,
                   shutdown>>

\* _process_trades: no message (zmq.Again), another symbol, or a message
\* whose parsing raises
NoTrade ==
    /\ pc = "trades"
    /\ jump' = NotCalled
    /\ signal' = NoSignal
    /\ pc' = "reports"
    /\ UNCHANGED <<cfgvars, leader_prices, follower_prices, positions,
                   pending_orders, statvars, running, now, sent, send_failures,
                   fed, event, closes, shutdown>>

\* the message the last _process_execution_reports handled
NoEvent == [topic |-> "none", cl_id |-> <<>>, status |-> "none"]

\* the client ids with a report still due, and one the engine never sent
ReportIds == DOMAIN pending_orders \cup {<<"unknown">>}

\* every client id the gateway may name: those of the orders sent (opening
\* and closing, reported or not, of open and of closed positions), and one
\* the engine never sent
GatewayIds == {sent[i].cl_id : i \in 1..Len(sent)} \cup {<<"unknown">>}

ReportStatuses == {"accepted", "rejected", "filled", "cancelled", "failed"}

PendingAfterReportByBaseId(pending, cl_id) ==
    [c \in {k \in DOMAIN pending : k # cl_id /\ CloseId(k) # cl_id} |->
        pending[c]]

\* if cl_id in self.pending_orders: del self.pending_orders[cl_id]
PendingAfterReport(pending, cl_id) ==
    [c \in DOMAIN pending \ {cl_id} |-> pending[c]]

ReportDropsRejected(cl_id, status) ==
    /\ pc = "reports"
    /\ event' = [topic |-> "exec.report", cl_id |-> cl_id, status |-> status]
    /\ pending_orders' = PendingAfterReport(pending_orders, cl_id)
    /\ positions' = IF status = "rejected" THEN DelPosition(positions, cl_id)
                    ELSE positions
    /\ pc' = "manage"
    /\ UNCHANGED <<cfgvars, leader_prices, follower_prices, statvars, running,
                   now, sent, send_failures, fed, jump, signal, closes,
                   shutdown>>

\* _process_execution_reports, topic exec.report
Report(cl_id, status) ==
    /\ pc = "reports"
    /\ event' = [topic |-> "exec.report", cl_id |-> cl_id, status |-> status]
    /\ pending_orders' = PendingAfterReport(pending_orders, cl_id)
    /\ pc' = "manage"
    /\ UNCHANGED <<cfgvars, leader_prices, follower_prices, positions,
                   statvars, running, now, sent, send_failures, fed, jump,
                   signal, closes, shutdown>>

FillClearsPending(cl_id) ==
    /\ pc = "reports"
    /\ event' = [topic |-> "exec.fill", cl_id |-> cl_id, status |-> "none"]
    /\ pending_orders' = PendingAfterReport(pending_orders, cl_id)
    /\ pc' = "manage"
    /\ UNCHANGED <<cfgvars, leader_prices, follower_prices, positions,
                   statvars, running, now, sent, send_failures, fed, jump,
                   signal, closes, shutdown>>

\* _process_execution_reports, topic exec.fill
Fill(cl_id) ==
    /\ pc = "reports"
    /\ event' = [topic |-> "exec.fill", cl_id |-> cl_id, status |-> "none"]
    /\ pc' = "manage"
    /\ UNCHANGED <<cfgvars, leader_prices, follower_prices, positions,
                   pending_orders, statvars, running, now, sent, send_failures,
                   fed, jump, signal, closes, shutdown>>

\* _process_execution_reports: no message (zmq.Again), or a message whose
\* parsing raises
NoReport ==
    /\ pc = "reports"
    /\ event' = NoEvent
    /\ pc' = "manage"
    /\ UNCHANGED <<cfgvars, leader_prices, follower_prices, positions,
                   pending_orders, statvars, running, now, sent, send_failures,
                   fed, jump, signal, closes, shutdown>>

\* report.get("cl_id") of a payload without that key: None
NoClId == <<"None">>

\* the malformed messages of the report socket: a payload json.loads
\* rejects, a payload without "cl_id", a topic that is neither exec.report
\* nor exec.fill (its payload is not read)
MalformedEvents ==
    {<<"exec.report", "unparseable">>, <<"exec.report", "no_cl_id">>,
     <<"exec.fill", "unparseable">>, <<"exec.fill", "no_cl_id">>,
     <<"other", "unread">>}

MalformedEventRaises(topic, fault) ==
    /\ pc = "reports"
    /\ event' = [topic |-> topic, cl_id |-> NoClId, status |-> fault]
    /\ pc' = IF fault = "unparseable" THEN "cleanup" ELSE "manage"
    /\ UNCHANGED <<cfgvars, leader_prices, follower_prices, positions,
                   pending_orders, statvars, running, now, sent, send_failures,
                   fed, jump, signal, closes, shutdown>>

\* _process_execution_reports on a malformed message: the exception of
\* json.loads is caught and printed, None is in no dict, another topic
\* matches neither branch
MalformedEvent(topic, fault) ==
    /\ pc = "reports"
    /\ event' = [topic |-> topic, cl_id |-> NoClId, status |-> fault]
    /\ pending_orders' =
           IF topic = "exec.report" /\ fault = "no_cl_id"
           THEN PendingAfterReport(pending_orders, NoClId)
           ELSE pending_orders
    /\ pc' = "manage"
    /\ UNCHANGED <<cfgvars, leader_prices, follower_prices, positions,
                   statvars, running, now, sent, send_failures, fed, jump,
                   signal, closes, shutdown>>

RemoveReported(ps, to_close) ==
    SelectSeq(ps, LAMBDA q : q.cl_id \notin to_close
                             \/ q.cl_id \in DOMAIN pending_orders)

\* for cl_id in to_close: del self.positions[cl_id]
RemoveClosed(ps, to_close) ==
    SelectSeq(ps, LAMBDA q : q.cl_id \notin to_close)

\* the ids of the closing orders whose send raises, in sweep order
FailedCloseIds(ps, fails) ==
    LET failing == SelectSeq(ps, LAMBDA q : q.cl_id \in fails)
    IN  [k \in 1..Len(failing) |-> CloseId(failing[k].cl_id)]

ManagePositionsForgetsClosed(fails) ==
    /\ pc = "manage"
    /\ IF Len(follower_prices) = 0
       THEN UNCHANGED <<positions, pending_orders, trades_won, trades_lost,
                        total_pnl, sent, closes>>
       ELSE LET current_price == follower_prices[Len(follower_prices)].price
                r == Sweep(positions, 1, current_price, now, fails, SweepStart)
            IN  /\ trades_won' = r.won
                /\ trades_lost' = r.lost
                /\ total_pnl' = r.pnl
                /\ sent' = r.sent
                /\ closes' = r.closes
                /\ positions' = RemoveClosed(positions, r.to_close)
                /\ pending_orders' =
                       [c \in DOMAIN pending_orders \ r.to_close |->
                           pending_orders[c]]
    /\ send_failures' = send_failures \o FailedCloseIds(positions, fails)
    /\ pc' = "sleep"
    /\ UNCHANGED <<cfgvars, leader_prices, follower_prices, trades_executed,
                   running, now, fed, jump, signal, event, shutdown>>

\* _manage_positions
ManagePositions(fails) ==
    /\ pc = "manage"
    /\ IF Len(follower_prices) = 0
       THEN UNCHANGED <<positions, trades_won, trades_lost, total_pnl, sent,
                        closes>>
       ELSE LET current_price == follower_prices[Len(follower_prices)].price
                r == Sweep(positions, 1, current_price, now, fails, SweepStart)
            IN  /\ trades_won' = r.won
                /\ trades_lost' = r.lost
                /\ total_pnl' = r.pnl
                /\ sent' = r.sent
                /\ closes' = r.closes
                /\ positions' = RemoveClosed(positions, r.to_close)
    /\ send_failures' = send_failures \o FailedCloseIds(positions, fails)
    /\ pc' = "sleep"
    /\ UNCHANGED <<cfgvars, leader_prices, follower_prices, pending_orders,
                   trades_executed, running, now, fed, jump, signal, event,
                   shutdown>>

\* the sets of closing sends that may raise in this sweep
FailSets ==
    IF Len(follower_prices) = 0 THEN {{}}
    ELSE {f \in SUBSET ClosingIds(positions,
                     follower_prices[Len(follower_prices)].price, now) :
              Len(send_failures) + Cardinality(f) <= MaxFail}

\* time.sleep(0.001); d: what the reading of the wall clock (time.time(),
\* which the system may set back and whose resolution may be coarser than
\* the sleep) has advanced by: with d = 0 the next cycle reads the same
\* millisecond again
Sleep(d) ==
    /\ pc = "sleep"
    /\ now + d <= MaxTime
    /\ now' = now + d
    /\ pc' = "loop"
    /\ UNCHANGED <<cfgvars, leader_prices, follower_prices, positions,
                   pending_orders, statvars, running, sent, send_failures, fed,
                   jump, signal, event, closes, shutdown>>

LoopHeadIgnoresFlag ==
    /\ pc = "loop"
    /\ pc' = IF running \/ positions # <<>> THEN "trades" ELSE "cleanup"
    /\ UNCHANGED <<cfgvars, leader_prices, follower_prices, positions,
                   pending_orders, statvars, running, now, sent, send_failures,
                   fed, jump, signal, event, closes, shutdown>>

\* while self.running
LoopHead ==
    /\ pc = "loop"
    /\ pc' = IF running THEN "trades" ELSE "cleanup"
    /\ UNCHANGED <<cfgvars, leader_prices, follower_prices, positions,
                   pending_orders, statvars, running, now, sent, send_failures,
                   fed, jump, signal, event, closes, shutdown>>

\* signal_handler (SIGINT).  Only the loop head reads the flag, so a signal
\* delivered anywhere in a cycle acts as one delivered just before the head.
SignalHandler ==
    /\ pc = "loop"
    /\ running
    /\ running' = FALSE
    /\ UNCHANGED <<cfgvars, leader_prices, follower_prices, positions,
                   pending_orders, statvars, now, sent, send_failures, fed, pc,
                   jump, signal, event, closes, shutdown>>

\* signal_handler (SIGINT) run while a call of the loop body is under way:
\* the flag is cleared, the call goes on
SignalInCycle ==
    /\ pc \in {"trades", "reports", "manage", "sleep"}
    /\ running
    /\ running' = FALSE
    /\ UNCHANGED <<cfgvars, leader_prices, follower_prices, positions,
                   pending_orders, statvars, now, sent, send_failures, fed, pc,
                   jump, signal, event, closes, shutdown>>

\* before _cleanup has run
NotShutDown == [steps |-> <<>>, open_positions |-> 0, warned |-> FALSE]

CleanupClosesPositions ==
    /\ pc = "cleanup"
    /\ shutdown' = [steps |-> <<"print_stats", "close_sockets", "term">>,
                    open_positions |-> 0, warned |-> FALSE]
    /\ sent' = sent \o [k \in 1..Len(positions) |-> CloseOrder(positions[k])]
    /\ positions' = <<>>
    /\ pc' = "stopped"
    /\ UNCHANGED <<cfgvars, leader_prices, follower_prices, pending_orders,
                   statvars, running, now, send_failures, fed, jump, signal,
                   event, closes>>

\* _cleanup: _print_stats (the summary, with "Open positions: n"), the
\* warning if positions remain, then the four sockets closed and the
\* context terminated; nothing is sent and no position is removed
Cleanup ==
    /\ pc = "cleanup"
    /\ shutdown' = [steps |-> <<"print_stats", "close_sockets", "term">>,
                    open_positions |-> Len(positions),
                    warned |-> positions # <<>>]
    /\ pc' = "stopped"
    /\ UNCHANGED <<cfgvars, leader_prices, follower_prices, positions,
                   pending_orders, statvars, running, now, sent, send_failures,
                   fed, jump, signal, event, closes>>

----------------------------------------------------------------------------
\* The engine, from construction.  The histories start empty or warmed up:
\* every history is reachable with no position and zero counters, since a
\* sample is appended whatever it holds and an order whose send raises
\* leaves no trace.

WarmLen == 11

Zigzag(first, n) ==
    [i \in 1..n |-> PricePoint(0, IF i % 2 = 1 THEN first ELSE 3 - first, 1)]

WarmHistories ==
    {<<<<>>, <<>>>>} \cup
    {<<Zigzag(a, WarmLen), Zigzag(b, WarmLen)>> : a, b \in {1, 2}}

InitEngine ==
    /\ positions = <<>>
    /\ pending_orders = <<>>
    /\ trades_executed = 0
    /\ trades_won = 0
    /\ trades_lost = 0
    /\ total_pnl = 0
    /\ running = TRUE
    /\ now = 0
    /\ sent = <<>>
    /\ send_failures = <<>>
    /\ fed = 0
    /\ pc = "loop"
    /\ jump = NotCalled
    /\ signal = NoSignal
    /\ event = NoEvent
    /\ closes = <<>>
    /\ shutdown = NotShutDown

Init ==
    /\ jump_threshold_bps = 5000
    /\ min_correlation \in {0, 55}
    /\ lookback_window = 100
    /\ base_position_usd \in {2, 4}
    /\ max_position_usd = 6
    /\ \E risk \in {<<40, 80>>, <<0, 0>>} :
           stop_loss_bps = risk[1] /\ take_profit_bps = risk[2]
    /\ max_open_positions \in {1, 2}
    /\ position_timeout_seconds = 1
    /\ \E warm \in WarmHistories :
           leader_prices = warm[1] /\ follower_prices = warm[2]
    /\ InitEngine

\* whether a send may raise now (the model bounds the sends that raise)
SendOutcomes == IF Len(send_failures) < MaxFail THEN BOOLEAN ELSE {TRUE}

Next ==
    \/ \E price \in PriceSet, ok \in SendOutcomes : LeaderTrade(0, price, ok)
    \/ \E price \in PriceSet : FollowerTrade(0, price)
    \/ NoTrade
    \/ \E cl_id \in ReportIds : Report(cl_id, "accepted")
    \/ NoReport
    \/ \E fails \in FailSets : ManagePositions(fails)
    \/ \E d \in {0, 1} : Sleep(d)
    \/ LoopHead
    \/ SignalHandler
    \/ Cleanup

Spec == Init /\ [][Next]_vars

----------------------------------------------------------------------------
\* _detect_jump alone, on histories of up to MaxJumpLen samples with any
\* small integer price (negative and zero included)

MaxJumpLen == 3

JumpPrices == (-1)..MaxJumpPrice

JumpHistories ==
    UNION {[1..n -> {PricePoint(0, p, 1) : p \in JumpPrices}] :
               n \in 0..MaxJumpLen}

InitJump ==
    /\ jump_threshold_bps \in {2500, 5000, 10000}
    /\ min_correlation = 55
    /\ lookback_window = 100
    /\ base_position_usd = 2
    /\ max_position_usd = 4
    /\ stop_loss_bps = 40
    /\ take_profit_bps = 80
    /\ max_open_positions = 2
    /\ position_timeout_seconds = 1
    /\ leader_prices \in JumpHistories
    /\ follower_prices = <<>>
    /\ InitEngine

ApplyDetectJump ==
    /\ pc = "loop"
    /\ jump' = Called(DetectJump(leader_prices))
    /\ pc' = "done"
    /\ UNCHANGED <<cfgvars, leader_prices, follower_prices, positions,
                   pending_orders, statvars, running, now, sent, send_failures,
                   fed, signal, event, closes, shutdown>>

JumpSpec == InitJump /\ [][ApplyDetectJump]_vars

----------------------------------------------------------------------------
\* _calculate_correlation alone, on histories of CorrMinLen .. CorrMaxLen
\* samples: a periodic price pattern, with one sample possibly replaced by
\* a price <= 0

CorrMinLen == 9

CorrMaxLen == 12

\* period 2: 1, 2, 1, 2, ...   period 4: 1, 2, 4, 2, 1, ...
PatternPrice(period, i) ==
    IF period = 2 THEN (IF i % 2 = 1 THEN 1 ELSE 2)
    ELSE (IF i % 4 = 1 THEN 1 ELSE IF i % 4 = 3 THEN 4 ELSE 2)

PatternHistory(period, n, bad) ==
    [i \in 1..n |->
        PricePoint(0, IF i = bad THEN 0 ELSE PatternPrice(period, i), 1)]

CorrHistories ==
    {PatternHistory(period, n, bad) :
         period \in {2, 4}, n \in CorrMinLen..CorrMaxLen, bad \in 0..CorrMaxLen}

InitCorr ==
    /\ jump_threshold_bps = 5000
    /\ min_correlation = 55
    /\ lookback_window \in {10, 11, 100}
    /\ base_position_usd = 2
    /\ max_position_usd = 4
    /\ stop_loss_bps = 40
    /\ take_profit_bps = 80
    /\ max_open_positions = 2
    /\ position_timeout_seconds = 1
    /\ leader_prices \in CorrHistories
    /\ follower_prices \in CorrHistories
    /\ InitEngine

ApplyCalculateCorrelation ==
    /\ pc = "loop"
    /\ signal' = [NoSignal EXCEPT !.outcome = "correlation",
                                  !.corr = CalculateCorrelation]
    /\ pc' = "done"
    /\ UNCHANGED <<cfgvars, leader_prices, follower_prices, positions,
                   pending_orders, statvars, running, now, sent, send_failures,
                   fed, jump, event, closes, shutdown>>

CorrSpec == InitCorr /\ [][ApplyCalculateCorrelation]_vars

----------------------------------------------------------------------------
\* The engine under every execution event the gateway may deliver: reports
\* of any status and fills, for any client id it may name

InitReport ==
    /\ jump_threshold_bps = 5000
    /\ min_correlation = 55
    /\ lookback_window = 100
    /\ base_position_usd = 4
    /\ max_position_usd = 6
    /\ stop_loss_bps = 40
    /\ take_profit_bps = 80
    /\ max_open_positions = 2
    /\ position_timeout_seconds = 1
    /\ \E a \in {1, 2} :
           /\ leader_prices = Zigzag(1, WarmLen)
           /\ follower_prices = Zigzag(a, WarmLen)
    /\ InitEngine

NextReport ==
    \/ \E price \in PriceSet, ok \in SendOutcomes : LeaderTrade(0, price, ok)
    \/ \E price \in PriceSet : FollowerTrade(0, price)
    \/ NoTrade
    \/ \E cl_id \in GatewayIds, status \in ReportStatuses :
           Report(cl_id, status)
    \/ \E cl_id \in GatewayIds : Fill(cl_id)
    \/ \E m \in MalformedEvents : MalformedEvent(m[1], m[2])
    \/ NoReport
    \/ \E fails \in FailSets : ManagePositions(fails)
    \/ \E d \in {0, 1} : Sleep(d)
    \/ LoopHead
    \/ SignalHandler
    \/ Cleanup

ReportSpec == InitReport /\ [][NextReport]_vars

----------------------------------------------------------------------------
\* The engine fed from histories that are empty, one sample short of full,
\* or full, with samples stamped by the data source: a stamp older than
\* every stored one, or newer

MaxStamp == 100

FeedStamps == {0, MaxStamp}

\* a history the source has delivered with increasing stamps 1, 2, ..., n
StampedZigzag(first, n) ==
    [i \in 1..n |-> PricePoint(i, IF i % 2 = 1 THEN first ELSE 3 - first, 1)]

\* <<leader history, follower history>>
FeedHistories ==
    {<<<<>>, <<>>>>,
     <<StampedZigzag(1, Capacity - 1), StampedZigzag(2, Capacity)>>,
     <<StampedZigzag(1, Capacity), StampedZigzag(1, Capacity - 1)>>}

InitFeed ==
    /\ jump_threshold_bps = 5000
    /\ min_correlation = 55
    /\ lookback_window \in {10, 20}
    /\ base_position_usd = 4
    /\ max_position_usd = 6
    /\ stop_loss_bps = 40
    /\ take_profit_bps = 80
    /\ max_open_positions = 2
    /\ position_timeout_seconds = 1
    /\ \E pair \in FeedHistories :
           leader_prices = pair[1] /\ follower_prices = pair[2]
    /\ InitEngine

NextFeed ==
    \/ \E ts \in FeedStamps, price \in PriceSet, ok \in SendOutcomes :
           LeaderTrade(ts, price, ok)
    \/ \E ts \in FeedStamps, price \in PriceSet : FollowerTrade(ts, price)
    \/ NoTrade
    \/ \E cl_id \in ReportIds : Report(cl_id, "accepted")
    \/ NoReport
    \/ \E fails \in FailSets : ManagePositions(fails)
    \/ \E d \in {0, 1} : Sleep(d)
    \/ LoopHead
    \/ SignalHandler
    \/ Cleanup

FeedSpec == InitFeed /\ [][NextFeed]_vars

----------------------------------------------------------------------------
\* The engine with the interrupt delivered at any point of a cycle.  The
\* loop is one sequential thread and none of its calls blocks (every recv
\* is zmq.NOBLOCK, the sleep is 1 ms), so the call the loop is at is
\* always made eventually: weak fairness of the loop's steps.

InitShutdown ==
    /\ jump_threshold_bps = 5000
    /\ min_correlation = 55
    /\ lookback_window = 100
    /\ base_position_usd = 4
    /\ max_position_usd = 6
    /\ stop_loss_bps = 40
    /\ take_profit_bps = 80
    /\ max_open_positions = 2
    /\ position_timeout_seconds = 1
    /\ \E a \in {1, 2} :
           /\ leader_prices = Zigzag(1, WarmLen)
           /\ follower_prices = Zigzag(a, WarmLen)
    /\ InitEngine

NextShutdown ==
    \/ \E price \in PriceSet, ok \in SendOutcomes : LeaderTrade(0, price, ok)
    \/ \E price \in PriceSet : FollowerTrade(0, price)
    \/ NoTrade
    \/ \E cl_id \in ReportIds : Report(cl_id, "accepted")
    \/ NoReport
    \/ \E fails \in FailSets : ManagePositions(fails)
    \/ \E d \in {0, 1} : Sleep(d)
    \/ LoopHead
    \/ SignalHandler
    \/ SignalInCycle
    \/ Cleanup

\* the loop does not stay for ever before a call it can make: a receive
\* returns at once when no message waits, a sweep ends, the sleep ends
LoopProgress ==
    /\ WF_vars(NoTrade)
    /\ WF_vars(NoReport)
    /\ WF_vars(ManagePositions({}))
    /\ WF_vars(Sleep(0))
    /\ WF_vars(LoopHead)
    /\ WF_vars(Cleanup)

ShutdownSpec == InitShutdown /\ [][NextShutdown]_vars /\ LoopProgress

----------------------------------------------------------------------------
\* The engine started on histories around the least length that gives a
\* correlation estimate (11 samples: 10 returns), with and without a
\* positive min_correlation

ShortHistories ==
    {<<Zigzag(1, n), Zigzag(a, m)>> :
         n \in {WarmLen - 2, WarmLen - 1}, m \in {WarmLen - 1, WarmLen},
         a \in {1, 2}}

InitShortHistory ==
    /\ jump_threshold_bps = 5000
    /\ min_correlation \in {0, 55}
    /\ lookback_window = 100
    /\ base_position_usd = 4
    /\ max_position_usd = 6
    /\ stop_loss_bps = 40
    /\ take_profit_bps = 80
    /\ max_open_positions = 2
    /\ position_timeout_seconds = 1
    /\ \E pair \in ShortHistories :
           leader_prices = pair[1] /\ follower_prices = pair[2]
    /\ InitEngine

ShortHistorySpec == InitShortHistory /\ [][Next]_vars

----------------------------------------------------------------------------
\* The engine with positions of hundreds of USD, started on histories that
\* are strongly correlated (signal strength far above 2) or weakly
\* correlated: after a leader sample of price 2 the 11 returns of either
\* weak pair have r^2 = 1/4104, a signal strength of 1.56

Samples(prices) == [i \in 1..Len(prices) |-> PricePoint(0, prices[i], 1)]

SizingHistories ==
    {<<Zigzag(1, WarmLen), Zigzag(2, WarmLen)>>,
     <<Samples(<<1, 2, 2, 2, 2, 1, 2, 1, 1, 2, 1>>),
       Samples(<<2, 1, 1, 2, 2, 1, 1, 2, 2, 2, 1, 1>>)>>,
     <<Samples(<<1, 1, 2, 2, 1, 2, 1, 1, 2, 2, 1>>),
       Samples(<<1, 2, 2, 1, 2, 2, 2, 1, 1, 1, 1, 2>>)>>}

InitSizing ==
    /\ jump_threshold_bps = 5000
    /\ min_correlation = 1
    /\ lookback_window = 100
    /\ base_position_usd \in {100, 200}
    /\ max_position_usd = 300
    /\ stop_loss_bps = 40
    /\ take_profit_bps = 80
    /\ max_open_positions = 2
    /\ position_timeout_seconds = 1
    /\ \E pair \in SizingHistories :
           leader_prices = pair[1] /\ follower_prices = pair[2]
    /\ InitEngine

SizingSpec == InitSizing /\ [][Next]_vars

----------------------------------------------------------------------------
\* The engine on a feed that may carry a price that is not a number: json
\* accepts the token NaN, and float() the string "nan"

NanPrices == {NaN, 1, 2}

InitNan ==
    /\ jump_threshold_bps = 5000
    /\ min_correlation \in {0, 55}
    /\ lookback_window = 100
    /\ base_position_usd = 4
    /\ max_position_usd = 6
    /\ stop_loss_bps = 40
    /\ take_profit_bps = 80
    /\ max_open_positions = 2
    /\ position_timeout_seconds = 1
    /\ \E a \in {1, 2} :
           /\ leader_prices = Zigzag(1, WarmLen)
           /\ follower_prices = Zigzag(a, WarmLen)
    /\ InitEngine

NextNan ==
    \/ \E price \in NanPrices, ok \in SendOutcomes : LeaderTrade(0, price, ok)
    \/ \E price \in NanPrices : FollowerTrade(0, price)
    \/ NoTrade
    \/ \E cl_id \in ReportIds : Report(cl_id, "accepted")
    \/ NoReport
    \/ \E fails \in FailSets : ManagePositions(fails)
    \/ \E d \in {0, 1} : Sleep(d)
    \/ LoopHead
    \/ SignalHandler
    \/ Cleanup

NanSpec == InitNan /\ [][NextNan]_vars

----------------------------------------------------------------------------
\* Properties

FollowerPrice == follower_prices[Len(follower_prices)].price

\* a step of _process_trades that appends a leader sample
LeaderUpdate == pc = "trades" /\ leader_prices' # leader_prices

\* a step of _manage_positions that runs the sweep
SweepStep == pc = "manage" /\ pc' = "sleep" /\ Len(follower_prices) > 0

NewCloses == (Len(closes) + 1)..Len(closes')

NewSent == (Len(sent) + 1)..Len(sent')

ExpectedPnl(pos, price) ==
    IF pos.side = "buy" THEN (price - pos.entry_price) * pos.size
    ELSE (pos.entry_price - price) * pos.size

\* the sweep has taken the close transition of pos: it has booked the
\* close, and if the closing send did not raise it has sent the closing
\* order and removed the position
ClosedBySweep(pos, k) ==
    /\ closes'[k].cl_id = pos.cl_id
    /\ closes'[k].dispatched =>
           /\ ~HasPosition(positions', pos.cl_id)
           /\ \E m \in NewSent : sent'[m].cl_id = CloseId(pos.cl_id)

\* C1: a leader update processed while the number of open positions is
\* equal to or greater than max_open_positions sends no order and records
\* no position or pending order, whatever the jump and the correlation.
C1_NoIntentAtMaxPositions ==
    [][(pc = "trades" /\ Len(positions) >= max_open_positions)
           => (sent' = sent /\ positions' = positions
               /\ pending_orders' = pending_orders)]_vars

C1_Witness ==
    /\ pc = "reports"
    /\ jump.is_jump
    /\ signal.outcome = "max_positions"
    /\ Len(positions) >= max_open_positions
    /\ Len(positions) > 0

\* C2: for every signal computed past the correlation gate, the trade
\* direction is the opposite of the leader direction if and only if the
\* correlation is strictly negative (correlation 0 with min_correlation 0
\* included).
C2_InvertedIffNegative ==
    signal.side \in {"buy", "sell"} =>
        LET trade_direction == IF signal.side = "buy" THEN 1 ELSE -1
        IN  (trade_direction = -signal.leader_direction)
                <=> (signal.corr.sgn < 0)

\* the conditions C3 names, on the leader history that holds the new sample
C3_Conditions(leader) ==
    /\ DetectJump(leader).is_jump
    /\ ~CorrelationTooLow(Correlation(leader, follower_prices))
    /\ Len(positions) < max_open_positions
    /\ Len(follower_prices) > 0
    /\ FollowerPrice > 0

\* C3 as stated: under those conditions alone the leader update sends
\* exactly one place order and records exactly one new position.
C3_SignalAlwaysEmitted ==
    [][(LeaderUpdate /\ C3_Conditions(leader_prices'))
           => (Len(sent') = Len(sent) + 1
               /\ Len(positions') = Len(positions) + 1)]_vars

\* C3 amended: under those conditions, if moreover the size rounded to 4
\* decimals is > 0 and the send does not raise, the leader update sends
\* exactly one place order for the follower (not reduce-only), counts it,
\* and records its position under the order's client id: one more open
\* position, unless a position with that id (same millisecond) is open.
C3_SignalEmittedWhenSized ==
    [][(/\ LeaderUpdate
        /\ C3_Conditions(leader_prices')
        /\ LET corr == Correlation(leader_prices', follower_prices)
           IN  Size(PositionUsd(corr, DetectJump(leader_prices')), corr,
                    FollowerPrice) > 0
        /\ send_failures' = send_failures)
           => /\ Len(sent') = Len(sent) + 1
              /\ SubSeq(sent', 1, Len(sent)) = sent
              /\ LET order == sent'[Len(sent')]
                 IN  /\ order.action = "place"
                     /\ order.symbol = FollowerSymbol
                     /\ ~order.reduce_only
                     /\ order.size > 0
                     /\ order.cl_id = ClId(now)
                     /\ \E i \in 1..Len(positions') :
                            /\ positions'[i].cl_id = order.cl_id
                            /\ positions'[i].side = order.side
                            /\ positions'[i].size = order.size
                            /\ positions'[i].entry_price = FollowerPrice
                     /\ order.cl_id \in DOMAIN pending_orders'
                     /\ Len(positions') =
                            IF HasPosition(positions, order.cl_id)
                            THEN Len(positions) ELSE Len(positions) + 1
              /\ trades_executed' = trades_executed + 1]_vars

C3_Witness ==
    /\ pc = "reports"
    /\ jump.is_jump
    /\ signal.outcome = "sent"
    /\ HasPosition(positions, signal.cl_id)
    /\ Len(sent) = 1

\* C4: a leader update that leaves the history with fewer than 2 samples,
\* or whose previous price is 0, yields (false, 0) from jump detection, and
\* no signal is evaluated: nothing is sent or recorded.
C4_DegenerateHistoryNoJump ==
    [][(/\ LeaderUpdate
        /\ \/ Len(leader_prices') < 2
           \/ leader_prices'[Len(leader_prices') - 1].price = 0)
           => /\ jump' = Called(NoJump)
              /\ signal' = NoSignal
              /\ UNCHANGED <<positions, pending_orders, sent,
                             trades_executed>>]_vars

C4_Witness ==
    /\ pc = "reports"
    /\ jump.called
    /\ Len(leader_prices) >= 2
    /\ leader_prices[Len(leader_prices) - 1].price = 0
    /\ leader_prices[Len(leader_prices)].price > 0

\* C5: with at least 2 samples and a non-zero previous price, a jump is
\* reported if and only if the last price is at or beyond the previous
\* price moved by jump_threshold_bps, upward or downward (the boundary is a
\* jump), and change_bps is |last / previous - 1| * 10000.
C5_JumpIffAtOrBeyondThreshold ==
    (pc = "done" /\ Len(leader_prices) >= 2
     /\ leader_prices[Len(leader_prices) - 1].price # 0) =>
        LET last == leader_prices[Len(leader_prices)].price
            prev == leader_prices[Len(leader_prices) - 1].price
            up == prev * (10000 + jump_threshold_bps)
            down == prev * (10000 - jump_threshold_bps)
        IN  /\ jump.is_jump <=>
                   IF prev > 0
                   THEN last * 10000 >= up \/ last * 10000 <= down
                   ELSE last * 10000 <= up \/ last * 10000 >= down
            /\ jump.den > 0
            /\ jump.num * Abs(prev) = Abs(last - prev) * 10000 * jump.den

C5_Witness ==
    /\ pc = "done"
    /\ Len(leader_prices) >= 2
    /\ jump.is_jump
    /\ jump.num = jump_threshold_bps * jump.den
    /\ leader_prices[Len(leader_prices)].price
           < leader_prices[Len(leader_prices) - 1].price
    /\ leader_prices[Len(leader_prices) - 1].price > 0

\* the return pairs of the last `window` samples with both prices > 0
UsableReturns(list, window) ==
    Cardinality({i \in (Len(list) - window + 1)..(Len(list) - 1) :
                     list[i].price > 0 /\ list[i + 1].price > 0})

\* C6: the correlation is exactly 0 whenever, over the last `window`
\* samples of each history, either has fewer than 10 return pairs with
\* both prices > 0; in particular whenever either history holds fewer than
\* 11 samples.
C6_ZeroBelowTenReturns ==
    pc = "done" =>
        LET window == Min(Min(Len(leader_prices), Len(follower_prices)),
                          lookback_window)
        IN  /\ (\/ UsableReturns(leader_prices, window) < 10
                \/ UsableReturns(follower_prices, window) < 10)
                   => signal.corr = ZeroCorr
            /\ (Len(leader_prices) < 11 \/ Len(follower_prices) < 11)
                   => signal.corr = ZeroCorr

C6_Witness ==
    /\ pc = "done"
    /\ Len(leader_prices) >= 11
    /\ Len(follower_prices) >= 11
    /\ LET window == Min(Min(Len(leader_prices), Len(follower_prices)),
                         lookback_window)
       IN  /\ UsableReturns(leader_prices, window) >= 10
           /\ UsableReturns(follower_prices, window) = 9
    /\ signal.corr = ZeroCorr

\* C7: a sweep closes every open buy position when the follower price is
\* <= its stop-loss and every open sell position when the price is >= its
\* stop-loss (it books the close and, the closing send not raising, removes
\* the position); the PnL booked is (exit - entry) * size for a buy and
\* (entry - exit) * size for a sell, negative when the stop is on the
\* losing side of the entry, and the total PnL grows by what was booked.
C7_StopLossCloses ==
    [][SweepStep =>
        /\ \A i \in 1..Len(positions) :
              LET pos == positions[i]
                  hit == \/ pos.side = "buy"
                            /\ FollowerPrice * BpsScale <= pos.stop_loss
                         \/ pos.side = "sell"
                            /\ FollowerPrice * BpsScale >= pos.stop_loss
                  losing == IF pos.side = "buy"
                            THEN pos.stop_loss < pos.entry_price * BpsScale
                            ELSE pos.stop_loss > pos.entry_price * BpsScale
              IN  hit => \E k \in NewCloses :
                             /\ ClosedBySweep(pos, k)
                             /\ closes'[k].pnl = ExpectedPnl(pos, FollowerPrice)
                             /\ losing => closes'[k].pnl < 0
        /\ total_pnl' =
               total_pnl + SeqSum([k \in 1..(Len(closes') - Len(closes)) |->
                                      closes'[Len(closes) + k].pnl])]_vars

C7_Witness ==
    \E k \in 1..Len(closes) :
        /\ closes[k].side = "buy"
        /\ closes[k].sl
        /\ closes[k].reason = "stop_loss"
        /\ closes[k].pnl < 0
        /\ closes[k].dispatched
        /\ ~HasPosition(positions, closes[k].cl_id)

\* C8 as stated: a sweep closes every open position whose age is greater
\* than or equal to position_timeout_seconds.
C8_ClosesAtTimeout ==
    [][SweepStep =>
        \A i \in 1..Len(positions) :
            (now - positions[i].entry_time >= position_timeout_seconds)
                => \E k \in NewCloses : ClosedBySweep(positions[i], k)]_vars

\* C8 amended: a sweep closes every open position whose age is strictly
\* greater than position_timeout_seconds, whatever the follower price;
\* when the price is strictly between stop-loss and take-profit the reason
\* is timeout and the PnL is computed from the current follower price.
C8_ClosesAfterTimeout ==
    [][SweepStep =>
        \A i \in 1..Len(positions) :
            LET pos == positions[i]
                p == FollowerPrice * BpsScale
                between == IF pos.side = "buy"
                           THEN pos.stop_loss < p /\ p < pos.take_profit
                           ELSE pos.take_profit < p /\ p < pos.stop_loss
            IN  (now - pos.entry_time > position_timeout_seconds)
                    => \E k \in NewCloses :
                           /\ ClosedBySweep(pos, k)
                           /\ between =>
                                  /\ closes'[k].reason = "timeout"
                                  /\ closes'[k].pnl =
                                         ExpectedPnl(pos, FollowerPrice)]_vars

C8_Witness ==
    \E k \in 1..Len(closes) :
        /\ closes[k].reason = "timeout"
        /\ ~closes[k].sl
        /\ ~closes[k].tp
        /\ closes[k].age > position_timeout_seconds
        /\ closes[k].dispatched
        /\ ~HasPosition(positions, closes[k].cl_id)

\* C9: when the stop-loss or take-profit condition and the timeout
\* condition of a position are both true in a sweep, the reason recorded is
\* the price-based one, not timeout.
C9_PriceReasonBeforeTimeout ==
    \A k \in 1..Len(closes) :
        ((closes[k].sl \/ closes[k].tp)
         /\ closes[k].age > position_timeout_seconds)
            => closes[k].reason \in {"stop_loss", "take_profit"}

\* C10: when the stop-loss and take-profit conditions of the only open
\* position are both true in a sweep, the close is recorded with reason
\* stop_loss and counted as a loss only, never as a win.
C10_StopLossBeforeTakeProfit ==
    [][(/\ SweepStep
        /\ Len(positions) = 1
        /\ StopLossHit(positions[1], FollowerPrice)
        /\ TakeProfitHit(positions[1], FollowerPrice))
           => /\ \E k \in NewCloses : closes'[k].reason = "stop_loss"
              /\ trades_lost' = trades_lost + 1
              /\ trades_won' = trades_won]_vars

\* C11: every close of a position in a sweep (its closing send not raising)
\* sends exactly one closing order, for the position's instrument, with the
\* side opposite to the position's, the position's full size and the
\* reduce-only flag set, and the sweep sends nothing else; the orders sent
\* by trade processing (the opening orders) never carry the reduce-only
\* flag.
C11_OneReduceOnlyClosingIntent ==
    [][/\ SweepStep =>
           /\ Len(sent') - Len(sent) =
                  Cardinality({k \in NewCloses : closes'[k].dispatched})
           /\ SubSeq(sent', 1, Len(sent)) = sent
           /\ \A i \in 1..Len(positions) :
                  ~HasPosition(positions', positions[i].cl_id) =>
                      LET pos == positions[i]
                          mine == {m \in NewSent :
                                       sent'[m].cl_id = CloseId(pos.cl_id)}
                      IN  /\ Cardinality(mine) = 1
                          /\ \A m \in mine :
                                 /\ sent'[m].action = "place"
                                 /\ sent'[m].symbol = pos.symbol
                                 /\ sent'[m].side # pos.side
                                 /\ sent'[m].side \in {"buy", "sell"}
                                 /\ sent'[m].size = pos.size
                                 /\ sent'[m].reduce_only
       /\ pc = "trades" => \A m \in NewSent : ~sent'[m].reduce_only]_vars

C11_Witness ==
    \E k \in 1..Len(closes), m \in 1..Len(sent) :
        /\ closes[k].dispatched
        /\ closes[k].side = "sell"
        /\ sent[m].cl_id = CloseId(closes[k].cl_id)
        /\ sent[m].side = "buy"
        /\ sent[m].reduce_only
        /\ ~HasPosition(positions, closes[k].cl_id)
        /\ \E n \in 1..Len(sent) :
               sent[n].cl_id = closes[k].cl_id /\ ~sent[n].reduce_only

\* a close condition of pos holds at the follower price and the clock of
\* the sweep
CloseConditionFired(pos) ==
    LET p == FollowerPrice * BpsScale
    IN  \/ pos.side = "buy" /\ (p <= pos.stop_loss \/ p >= pos.take_profit)
        \/ pos.side = "sell" /\ (p >= pos.stop_loss \/ p <= pos.take_profit)
        \/ now - pos.entry_time > position_timeout_seconds

\* C12: a position whose close condition fired in a sweep and whose closing
\* order was sent without raising is not in the open set when that sweep
\* ends, whether or not a report for its opening order (or anything for its
\* closing order) has been received.
C12_ClosedAtEndOfSweep ==
    [][SweepStep =>
        \A i \in 1..Len(positions) :
            (/\ CloseConditionFired(positions[i])
             /\ \E m \in NewSent :
                    sent'[m].cl_id = CloseId(positions[i].cl_id))
                => ~HasPosition(positions', positions[i].cl_id)]_vars

C12_Witness ==
    /\ pc = "sleep"
    /\ \E k \in 1..Len(closes) :
           /\ closes[k].dispatched
           /\ closes[k].cl_id \in DOMAIN pending_orders
           /\ sent[Len(sent)].cl_id = CloseId(closes[k].cl_id)
           /\ ~HasPosition(positions, closes[k].cl_id)

\* C13: once a position has been closed (its closing order sent and its
\* client id removed from the open set), that client id is never in the
\* open set again and no further closing order is sent for it, whatever
\* market updates, reports and sweeps follow.
C13_ClosedIsTerminal ==
    [][\A k \in 1..Len(closes) :
           closes[k].dispatched =>
               /\ ~HasPosition(positions', closes[k].cl_id)
               /\ \A m \in NewSent :
                      sent'[m].cl_id # CloseId(closes[k].cl_id)]_vars

\* C14: when the send of an opening order raises, the engine goes on with
\* the cycle, and the open positions, the pending orders and the count of
\* orders sent are exactly what they were before the attempt.
C14_FailedOpenRolledBack ==
    [][(pc = "trades" /\ signal'.outcome = "send_failed")
           => /\ positions' = positions
              /\ pending_orders' = pending_orders
              /\ trades_executed' = trades_executed
              /\ sent' = sent
              /\ running' = running
              /\ pc' = "reports"]_vars

\* C15: once the send of an order (opening or closing) has raised, no order
\* with the same client id is sent in any later step.
C15_NoRetryOfDroppedSend ==
    [][\A i \in 1..Len(send_failures) :
           \A m \in NewSent : sent'[m].cl_id # send_failures[i]]_vars

\* a step of _process_execution_reports that handled a message
EventStep == pc = "reports" /\ event'.topic # "none"

\* everything of the engine but the loop position and the record of the
\* message handled
EngineState ==
    <<cfgvars, leader_prices, follower_prices, positions, pending_orders,
      statvars, running, sent>>

\* C16: processing an execution report of any status, or a fill, for any
\* client id leaves the open set and every position (entry price, size,
\* stop-loss, take-profit) unchanged, and leaves the cumulative PnL and the
\* win and loss counters unchanged.
C16_EventsLeavePositionsAlone ==
    [][pc = "reports" =>
           /\ positions' = positions
           /\ total_pnl' = total_pnl
           /\ trades_won' = trades_won
           /\ trades_lost' = trades_lost]_vars

C16_Witness ==
    /\ pc = "manage"
    /\ event.topic = "exec.report"
    /\ event.status = "rejected"
    /\ HasPosition(positions, event.cl_id)

\* C17: right after a report for a client id has been processed that id is
\* not in the pending orders (and every other pending order still is); a
\* fill leaves the pending orders as they were.
C17_ReportClearsPendingFillDoesNot ==
    [][pc = "reports" =>
           /\ event'.topic = "exec.report" =>
                  /\ event'.cl_id \notin DOMAIN pending_orders'
                  /\ DOMAIN pending_orders' =
                         DOMAIN pending_orders \ {event'.cl_id}
                  /\ \A c \in DOMAIN pending_orders' :
                         pending_orders'[c] = pending_orders[c]
           /\ event'.topic = "exec.fill" =>
                  pending_orders' = pending_orders]_vars

C17_Witness ==
    /\ pc = "manage"
    /\ event.topic = "exec.fill"
    /\ event.cl_id \in DOMAIN pending_orders

\* C18 as stated: a report or a fill whose client id was never sent, is
\* already reported, belongs to a closed position or is that of a closing
\* order changes no engine state.
C18_UnknownIdChangesNothing ==
    [][(/\ EventStep
        /\ \/ event'.cl_id \notin DOMAIN pending_orders
           \/ \E k \in 1..Len(closes) :
                  /\ closes[k].dispatched
                  /\ closes[k].cl_id = event'.cl_id
                  /\ ~HasPosition(positions, event'.cl_id))
           => /\ pc' = "manage"
              /\ UNCHANGED EngineState]_vars

\* C18 amended: a report or a fill whose client id is not in the pending
\* orders (never sent, already reported, or that of a closing order)
\* raises no error and changes no engine state; a report for a pending id
\* removes just that id, also when its position is already closed; so the
\* positions and pending orders that result from reports and fills do not
\* depend on the order in which they arrive.
C18_NotPendingIdChangesNothing ==
    [][EventStep =>
           /\ pc' = "manage"
           /\ event'.cl_id \notin DOMAIN pending_orders
                  => UNCHANGED EngineState
           /\ positions' = positions
           /\ DOMAIN pending_orders' =
                  IF event'.topic = "exec.report"
                  THEN DOMAIN pending_orders \ {event'.cl_id}
                  ELSE DOMAIN pending_orders
           /\ \A c \in DOMAIN pending_orders' :
                  pending_orders'[c] = pending_orders[c]]_vars

C18_Witness ==
    /\ pc = "manage"
    /\ event.topic = "exec.report"
    /\ \E m \in 1..Len(sent) :
           sent[m].cl_id = event.cl_id /\ sent[m].reduce_only
    /\ \E c \in DOMAIN pending_orders : CloseId(c) = event.cl_id

\* steps of _process_trades that push a sample onto a history
LeaderPush == pc = "trades" /\ fed' = fed + 1 /\ jump' # NotCalled

FollowerPush == pc = "trades" /\ fed' = fed + 1 /\ jump' = NotCalled

\* after is before with one sample pushed at the end, the oldest sample
\* of before evicted if before held lookback_window + 50 samples
PushedOnto(before, after) ==
    /\ after # <<>>
    /\ after[Len(after)].timestamp_ns \in FeedStamps
    /\ after[Len(after)].price \in PriceSet
    /\ IF Len(before) = lookback_window + 50
       THEN /\ Len(after) = Len(before)
            /\ \A i \in 1..(Len(before) - 1) : after[i] = before[i + 1]
       ELSE /\ Len(after) = Len(before) + 1
            /\ \A i \in 1..Len(before) : after[i] = before[i]

\* C19: neither history ever holds more than lookback_window + 50 samples;
\* a push onto a full history removes exactly the oldest sample, keeps the
\* others in their order and puts the pushed sample last, and a push onto
\* a history that is not full only adds the sample at the end.
C19_BoundedHistories ==
    [][/\ Len(leader_prices) <= lookback_window + 50
       /\ Len(follower_prices) <= lookback_window + 50
       /\ Len(leader_prices') <= lookback_window + 50
       /\ Len(follower_prices') <= lookback_window + 50
       /\ LeaderPush => PushedOnto(leader_prices, leader_prices')
       /\ FollowerPush => PushedOnto(follower_prices, follower_prices')]_vars

C19_Witness ==
    /\ pc = "reports"
    /\ jump # NotCalled
    /\ Len(leader_prices) = lookback_window + 50
    /\ leader_prices[1].timestamp_ns = 2
    /\ leader_prices[Len(leader_prices)].timestamp_ns \in FeedStamps

InTimestampOrder(prices) ==
    \A i \in 1..(Len(prices) - 1) :
        prices[i].timestamp_ns <= prices[i + 1].timestamp_ns

\* C20: the samples of each history are in non-decreasing timestamp order
\* after every sequence of updates, also when an update carries an older
\* timestamp than the samples already stored.
C20_HistoriesInTimestampOrder ==
    InTimestampOrder(leader_prices) /\ InTimestampOrder(follower_prices)

\* the step has appended a sample whose price is missing (read as 0), zero
\* or negative
OutOfRangeAppended(before, after) ==
    after # before /\ after[Len(after)].price <= 0

\* C21: a market update whose price is missing, zero or negative is
\* discarded: it is appended to neither history, is never reported as a
\* jump, triggers no order and closes no position (no sweep runs at a
\* follower price <= 0), and the engine goes on with the cycle.
C21_OutOfRangeUpdateDiscarded ==
    [][/\ pc = "trades" =>
              /\ ~OutOfRangeAppended(leader_prices, leader_prices')
              /\ ~OutOfRangeAppended(follower_prices, follower_prices')
              /\ pc' = "reports"
       /\ SweepStep /\ FollowerPrice <= 0 =>
              /\ positions' = positions
              /\ closes' = closes]_vars

\* C22: a malformed execution event (payload that does not parse, payload
\* without client id, topic that is neither a report nor a fill) changes
\* no position, pending order or counter, and the engine goes on to the
\* position sweep of the same cycle with the loop still running.
C22_MalformedEventDiscarded ==
    [][(pc = "reports"
        /\ event'.status \in {"unparseable", "no_cl_id", "unread"})
           => /\ positions' = positions
              /\ pending_orders' = pending_orders
              /\ UNCHANGED statvars
              /\ running' = running
              /\ pc' = "manage"]_vars

\* a cycle has started after a malformed report was handled with an order
\* pending and a position open
C22_Witness ==
    /\ pc = "trades"
    /\ event.topic = "exec.report"
    /\ event.status \in {"unparseable", "no_cl_id"}
    /\ positions # <<>>
    /\ DOMAIN pending_orders # {}

C24_ShutdownTerminates ==
    /\ [][~running => pc' # "trades"]_vars
    /\ [](shutdown.steps # <<>> =>
              /\ pc = "stopped"
              /\ ~running
              /\ shutdown.steps = <<"print_stats", "close_sockets", "term">>)
    /\ [](~running => <>(pc = "stopped"))

\* the engine has stopped at the end of a cycle that opened a position
C24_Witness ==
    /\ pc = "stopped"
    /\ shutdown.steps # <<>>
    /\ signal.outcome = "sent"
    /\ positions # <<>>

\* the opening orders sent so far, in the order sent
OpeningIntents == SelectSeq(sent, LAMBDA o : ~o.reduce_only)

\* C25: every opening order sent carries a client id different from that
\* of every opening order sent before, and recording a new position never
\* replaces a position that is still open.
C25_OpeningIdsUnique ==
    [][/\ \A i, j \in 1..Len(OpeningIntents') :
              i # j => OpeningIntents'[i].cl_id # OpeningIntents'[j].cl_id
       /\ pc = "trades" =>
              \A k \in 1..Len(positions) :
                  HasPosition(positions', positions[k].cl_id)
                      => positions[k] \in {positions'[n] :
                                               n \in 1..Len(positions')}]_vars

\* an opening order for pos is among the orders sent
OpeningIntentSent(pos, orders) ==
    \E m \in 1..Len(orders) :
        /\ orders[m].cl_id = pos.cl_id
        /\ ~orders[m].reduce_only
        /\ orders[m].symbol = pos.symbol
        /\ orders[m].side = pos.side
        /\ orders[m].size = pos.size

\* C26: at the end of every cycle (after the sweep) every open position has
\* an opening order that was sent without the send raising, and no report
\* or fill, whatever its status, takes a position out of the open set: a
\* position is open from the send on, reported or not.
C26_OpenMeansDispatched ==
    [][/\ pc' = "sleep" =>
              \A k \in 1..Len(positions') :
                  OpeningIntentSent(positions'[k], sent')
       /\ pc = "reports" =>
              \A k \in 1..Len(positions) :
                  HasPosition(positions', positions[k].cl_id)]_vars

\* end of a cycle with two positions open, one whose order has just been
\* reported rejected and one whose order has had no report
C26_Witness ==
    /\ pc = "sleep"
    /\ Len(positions) = 2
    /\ event.topic = "exec.report"
    /\ event.status = "rejected"
    /\ HasPosition(positions, event.cl_id)
    /\ \E k \in 1..2 : positions[k].cl_id \in DOMAIN pending_orders

\* C27: with min_correlation > 0, a market update processed while the
\* leader history (the new sample included) or the follower history holds
\* fewer than 11 samples sends no order and records no position or pending
\* order, whatever the jump.
C27_NoIntentOnShortHistory ==
    [][(/\ pc = "trades"
        /\ min_correlation > 0
        /\ Len(leader_prices') < 11 \/ Len(follower_prices') < 11)
           => /\ sent' = sent
              /\ positions' = positions
              /\ pending_orders' = pending_orders]_vars

\* a leader jump evaluated with 11 leader samples and 10 follower samples
C27_Witness ==
    /\ pc = "reports"
    /\ min_correlation > 0
    /\ jump.is_jump
    /\ signal.outcome = "low_correlation"
    /\ signal.corr = ZeroCorr
    /\ Len(leader_prices) = 11
    /\ Len(follower_prices) = 10

\* a leader update that is a jump and passes the position gate and the
\* correlation gate
PassesGates(leader) ==
    /\ DetectJump(leader).is_jump
    /\ Len(positions) < max_open_positions
    /\ ~CorrelationTooLow(Correlation(leader, follower_prices))

NoUsableFollowerPrice ==
    Len(follower_prices) = 0 \/ FollowerPrice <= 0

\* C28: when a signal passes the position and correlation gates while no
\* follower sample exists or the latest follower price is <= 0, no order
\* is sent and no position, pending order or orders-sent count is added;
\* the engine goes on with the cycle, still running and with the open set
\* below its limit, so that a later signal is evaluated as before.
C28_NoFollowerPriceSuppresses ==
    [][(LeaderUpdate /\ PassesGates(leader_prices') /\ NoUsableFollowerPrice)
           => /\ sent' = sent
              /\ positions' = positions
              /\ pending_orders' = pending_orders
              /\ trades_executed' = trades_executed
              /\ follower_prices' = follower_prices
              /\ running' = running
              /\ pc' = "reports"]_vars

\* a later cycle has started after a signal was suppressed at a follower
\* price of 0
C28_Witness ==
    /\ pc = "trades"
    /\ jump.is_jump
    /\ signal.outcome = "invalid_price"
    /\ signal.price = 0
    /\ running

\* the opening order sent by this step, if any
OpeningSent ==
    /\ pc = "trades"
    /\ Len(sent') = Len(sent) + 1
    /\ ~sent'[Len(sent')].reduce_only

\* x = y for two quantities [n, d, irr]: the same fraction in lowest terms
SameQuantity(x, y) ==
    /\ x.irr = y.irr
    /\ x.n \div Gcd(x.n, x.d) = y.n \div Gcd(y.n, y.d)
    /\ x.d \div Gcd(x.n, x.d) = y.d \div Gcd(y.n, y.d)

\* x <= c for a quantity x = [n, d, irr] and an integer c >= 0
QuantityAtMost(x, corr, c) ==
    IF x.irr THEN AbsCorrLeq(corr, c * x.d, x.n) ELSE x.n <= c * x.d

\* min(base_position_usd * min(|r| * change_bps / 100, 2), max_position_usd)
\* for the correlation corr and change_bps = jb.num / jb.den > 0
ClaimedNotional(corr, jb) ==
    IF AbsCorrGeq(corr, 200 * jb.den, jb.num)
    THEN Rat(Min(2 * base_position_usd, max_position_usd), 1)
    ELSE IF AbsCorrLeq(corr, 100 * jb.den * max_position_usd,
                       jb.num * base_position_usd)
    THEN [n |-> jb.num * base_position_usd, d |-> 100 * jb.den, irr |-> TRUE]
    ELSE Rat(max_position_usd, 1)

\* size (in 10^-4 units) is pct % of x / (4 * price) rounded to the
\* nearest integer: the distance between the two is at most 1/2
SizeOfNotional(size, x, corr, price, pct) ==
    LET g == Gcd(pct * x.n, 400 * x.d * price)
        n == (pct * x.n) \div g
        d == (400 * x.d * price) \div g
    IN  IF x.irr
        THEN /\ AbsCorrGeq(corr, (2 * size - 1) * d, 2 * n)
             /\ AbsCorrLeq(corr, (2 * size + 1) * d, 2 * n)
        ELSE /\ (2 * size - 1) * d <= 2 * n
             /\ 2 * n <= (2 * size + 1) * d

\* the notional of the opening order sent by this step is the claimed
\* one, at most max_position_usd and at most twice base_position_usd
NotionalAsClaimed ==
    /\ SameQuantity(signal'.position_usd,
                    ClaimedNotional(signal'.corr, jump'))
    /\ QuantityAtMost(signal'.position_usd, signal'.corr, max_position_usd)
    /\ QuantityAtMost(signal'.position_usd, signal'.corr,
                      2 * base_position_usd)
    /\ signal'.price = FollowerPrice
    /\ sent'[Len(sent')].size = signal'.size

\* C29 as stated: for every opening order sent, the notional is
\* min(base_position_usd * min(|correlation| * change_bps / 100, 2),
\* max_position_usd), and the size sent is that notional at the latest
\* follower price: notional / price, to the 4 decimals of a size.
C29_SizeIsNotionalAtPrice ==
    [][OpeningSent =>
           /\ NotionalAsClaimed
           /\ SizeOfNotional(signal'.size, signal'.position_usd,
                             signal'.corr, FollowerPrice, 100)]_vars

\* C29 amended: the notional is as stated, so at most max_position_usd and
\* at most twice base_position_usd, and the size sent is 98 % of that
\* notional at the latest follower price:
\* round(0.98 * notional / price, 4).
C29_NotionalCappedAndSized ==
    [][OpeningSent =>
           /\ NotionalAsClaimed
           /\ SizeOfNotional(signal'.size, signal'.position_usd,
                             signal'.corr, FollowerPrice, 98)]_vars

\* an order sent on a signal of strength below 2 and a notional below the
\* cap
C29_Witness ==
    /\ pc = "reports"
    /\ signal.outcome = "sent"
    /\ signal.position_usd.irr
    /\ ~AbsCorrGeq(signal.corr, 200 * jump.den, jump.num)
    /\ signal.size > 1

\* the thresholds of pos lie on either side of its entry price and are
\* those computed from it: price * (1 -/+ stop_loss_bps / 10000) and
\* price * (1 +/- take_profit_bps / 10000)
ThresholdsAroundEntry(pos) ==
    /\ pos.side = "buy" =>
           /\ pos.stop_loss < pos.entry_price * BpsScale
           /\ pos.entry_price * BpsScale < pos.take_profit
           /\ pos.stop_loss = pos.entry_price * (BpsScale - stop_loss_bps)
           /\ pos.take_profit = pos.entry_price * (BpsScale + take_profit_bps)
    /\ pos.side = "sell" =>
           /\ pos.take_profit < pos.entry_price * BpsScale
           /\ pos.entry_price * BpsScale < pos.stop_loss
           /\ pos.stop_loss = pos.entry_price * (BpsScale + stop_loss_bps)
           /\ pos.take_profit = pos.entry_price * (BpsScale - take_profit_bps)

\* C30: with stop_loss_bps > 0 and take_profit_bps > 0, every recorded buy
\* position has stop_loss < entry_price < take_profit and every sell
\* position take_profit < entry_price < stop_loss, the entry price being
\* the follower price when the position was recorded and the thresholds
\* computed from it; as long as a client id stays in the open set, the
\* entry price and the thresholds recorded for it do not change.
C30_ThresholdsFixedAroundEntry ==
    [][(stop_loss_bps > 0 /\ take_profit_bps > 0) =>
           /\ \A n \in 1..Len(positions') :
                  /\ ThresholdsAroundEntry(positions'[n])
                  /\ ~HasPosition(positions, positions'[n].cl_id)
                         => positions'[n].entry_price = FollowerPrice
           /\ \A k \in 1..Len(positions), n \in 1..Len(positions') :
                  positions'[n].cl_id = positions[k].cl_id
                      => /\ positions'[n].entry_price = positions[k].entry_price
                         /\ positions'[n].stop_loss = positions[k].stop_loss
                         /\ positions'[n].take_profit
                                = positions[k].take_profit]_vars

\* the orders in which a dict of n entries can be visited
VisitOrders(n) ==
    {f \in [1..n -> 1..n] : \A i, j \in 1..n : i # j => f[i] # f[j]}

Reorder(ps, f) == [i \in 1..Len(ps) |-> ps[f[i]]]

\* the ids whose closing send raised in the sweep of this step
RaisedInSweep == {closes'[k].cl_id : k \in {n \in NewCloses :
                                              ~closes'[n].dispatched}}

\* what a sweep over ps leaves: the ids closed, the closes booked (id,
\* reason, PnL, ...), the positions still open, the totals
SweepOutcome(ps, fails) ==
    LET r == Sweep(ps, 1, FollowerPrice, now, fails, SweepStart)
        left == RemoveClosed(ps, r.to_close)
    IN  [closed |-> r.to_close,
         booked |-> {r.closes[k] : k \in (Len(closes) + 1)..Len(r.closes)},
         open |-> {left[k] : k \in 1..Len(left)},
         pnl |-> r.pnl, won |-> r.won, lost |-> r.lost]

\* C31: the result of a sweep (the positions closed, the reason and PnL of
\* each close, the positions left open, the totals of PnL, wins and losses)
\* is the same in whatever order the open positions are visited, and what
\* the sweep does to one position is what a sweep of that position alone
\* does to it.
C31_SweepOrderIndependent ==
    [][SweepStep =>
        LET done == [closed |-> PositionIds(positions)
                                    \ PositionIds(positions'),
                     booked |-> {closes'[k] : k \in NewCloses},
                     open |-> {positions'[k] : k \in 1..Len(positions')},
                     pnl |-> total_pnl', won |-> trades_won',
                     lost |-> trades_lost']
        IN  /\ \A f \in VisitOrders(Len(positions)) :
                   SweepOutcome(Reorder(positions, f), RaisedInSweep) = done
            /\ \A i \in 1..Len(positions) :
                   LET alone == SweepOutcome(<<positions[i]>>, RaisedInSweep)
                       id == positions[i].cl_id
                   IN  /\ id \in alone.closed <=> id \in done.closed
                       /\ alone.booked =
                              {c \in done.booked : c.cl_id = id}]_vars

\* two positions of different ages closed in one sweep: with
\* stop_loss_bps = 0 a position is closed by the first sweep whose
\* closing send does not raise
C31_Witness ==
    /\ pc = "sleep"
    /\ stop_loss_bps = 0
    /\ Len(sent) >= 2
    /\ Len(closes) >= 2
    /\ sent[Len(sent)].reduce_only
    /\ sent[Len(sent) - 1].reduce_only
    /\ closes[Len(closes)].dispatched
    /\ closes[Len(closes) - 1].dispatched
    /\ closes[Len(closes)].cl_id # closes[Len(closes) - 1].cl_id
    /\ closes[Len(closes)].age # closes[Len(closes) - 1].age

\* the indices i of the last `window` samples whose return
\* ln(list[i+1] / list[i]) is taken (both prices > 0)
UsablePairs(list, window) ==
    {i \in (Len(list) - window + 1)..(Len(list) - 1) :
         list[i].price > 0 /\ list[i + 1].price > 0}

\* the k-th newest return of the filtered series of list
NewestReturn(list, window, k) ==
    LET i == CHOOSE j \in UsablePairs(list, window) :
                 Cardinality({m \in UsablePairs(list, window) : m >= j}) = k
    IN  Log2(list[i + 1].price) - Log2(list[i].price)

\* C32: when both filtered return series hold at least 10 returns, the
\* correlation is Pearson's coefficient of the pairs (k-th newest leader
\* return, k-th newest follower return), k = 1 .. the length of the shorter
\* series: the returns left out are the oldest ones of the longer series.
C32_AlignedAtNewestEnd ==
    pc = "done" =>
        LET window == Min(Min(Len(leader_prices), Len(follower_prices)),
                          lookback_window)
            nl == Cardinality(UsablePairs(leader_prices, window))
            nf == Cardinality(UsablePairs(follower_prices, window))
            n == Min(nl, nf)
        IN  (nl >= 10 /\ nf >= 10) =>
                signal.corr =
                    Pearson([k \in 1..n |->
                                NewestReturn(leader_prices, window, k)],
                            [k \in 1..n |->
                                NewestReturn(follower_prices, window, k)])

\* series of 10 and 11 returns, and a correlation that is not 0
C32_Witness ==
    /\ pc = "done"
    /\ LET window == Min(Min(Len(leader_prices), Len(follower_prices)),
                         lookback_window)
       IN  /\ Cardinality(UsablePairs(leader_prices, window)) = 10
           /\ Cardinality(UsablePairs(follower_prices, window)) = 11
    /\ signal.corr.sgn = -1

\* C33: in every reachable state the number of open positions is at most
\* max_open_positions.
C33_OpenPositionsBounded == Len(positions) <= max_open_positions

\* the limit reached by an order just sent, a position open before it
C33_Witness ==
    /\ pc = "reports"
    /\ signal.outcome = "sent"
    /\ signal.open_before = 1
    /\ Len(positions) = max_open_positions

\* the PnL booked for the closes whose position was removed from the open
\* set (the closing send did not raise)
RemovedPnl ==
    SeqSum([k \in 1..Len(closes) |->
               IF closes[k].dispatched THEN closes[k].pnl ELSE 0])

\* C34: in every reachable state total_pnl is the sum of the close PnL of
\* the positions that have been removed from the open set, so that each
\* position contributes to it at most once.
C34_PnlBookedOncePerRemovedPosition == total_pnl = RemovedPnl

\* the closes booked by the sweep of this step with the given reason
NewClosesFor(reason) == {k \in NewCloses : closes'[k].reason = reason}

\* the positions closed so far: removed from the open set by a sweep
ClosedCount ==
    Cardinality({k \in 1..Len(closes) : closes[k].dispatched})

\* C35: a sweep increments trades_lost once for each close it records with
\* the reason stop_loss and for no other, and trades_won once for each
\* close it records with the reason take_profit and for no other; so
\* trades_won + trades_lost never exceeds the number of positions closed.
C35_CountersAgreeWithReason ==
    /\ [][SweepStep =>
            /\ trades_lost' - trades_lost =
                   Cardinality(NewClosesFor("stop_loss"))
            /\ trades_won' - trades_won =
                   Cardinality(NewClosesFor("take_profit"))]_vars
    /\ [](trades_won + trades_lost <= ClosedCount)

\* C36: in every reachable state trades_executed is the number of open
\* positions plus the number of positions that have been closed, and it is
\* the number of opening orders sent (a closing order, or an order whose
\* send raised, is not counted).
C36_OrdersConserved ==
    /\ trades_executed = Len(positions) + ClosedCount
    /\ trades_executed = Len(OpeningIntents)

\* C37: every pending id is the client id of an opening order that was
\* sent, recorded with that order, and never the id of a closing order; an
\* id becomes pending only when its opening order is sent, it is not
\* pending once a report for it has been processed, and it stops being
\* pending only by such a report: not by a fill, and not by the sweep that
\* closes its position.
C37_PendingAreUnreportedOpenings ==
    /\ [](\A c \in DOMAIN pending_orders :
              /\ ~pending_orders[c].reduce_only
              /\ pending_orders[c].cl_id = c
              /\ \E m \in 1..Len(sent) : sent[m] = pending_orders[c]
              /\ \A m \in 1..Len(sent) :
                     sent[m].reduce_only => sent[m].cl_id # c)
    /\ [][/\ \A c \in DOMAIN pending_orders' \ DOMAIN pending_orders :
                 /\ pc = "trades"
                 /\ signal'.outcome = "sent"
                 /\ sent' = Append(sent, pending_orders'[c])
          /\ \A c \in DOMAIN pending_orders \ DOMAIN pending_orders' :
                 /\ pc = "reports"
                 /\ event'.topic = "exec.report"
                 /\ event'.cl_id = c
          /\ (pc = "reports" /\ event'.topic = "exec.report")
                 => event'.cl_id \notin DOMAIN pending_orders']_vars

\* an opening order still pending in a later cycle, its position closed and
\* the closing order sent
C37_Witness ==
    /\ pc = "trades"
    /\ positions = <<>>
    /\ \E k \in 1..Len(closes), m \in 1..Len(sent) :
           /\ closes[k].dispatched
           /\ closes[k].cl_id \in DOMAIN pending_orders
           /\ sent[m].cl_id = CloseId(closes[k].cl_id)
           /\ event.cl_id = sent[m].cl_id
           /\ event.topic = "exec.report"

\* C38: whenever a position is open the follower history is not empty; so
\* the sweep of every cycle runs, and it books a close for an open position
\* exactly when one of its close conditions (stop-loss, take-profit,
\* timeout) holds at the latest follower price and the clock of the sweep.
C38_SweepNeverSkippedWhileOpen ==
    /\ [](positions # <<>> => Len(follower_prices) > 0)
    /\ [][(pc = "manage" /\ positions # <<>>) =>
            /\ pc' = "sleep"
            /\ \A i \in 1..Len(positions) :
                   CloseConditionFired(positions[i]) <=>
                       \E k \in NewCloses :
                           closes'[k].cl_id = positions[i].cl_id]_vars

\* a sweep over two open positions that closed one and kept the other
C38_Witness ==
    /\ pc = "sleep"
    /\ Len(positions) = 1
    /\ closes # <<>>
    /\ closes[Len(closes)].dispatched
    /\ closes[Len(closes)].reason = "timeout"
    /\ closes[Len(closes)].cl_id # positions[1].cl_id
    /\ positions[1].entry_time > 0

\* C39: every position in the open set has size > 0 and entry_price > 0,
\* and a signal whose size rounds to 0 or less sends no order and records
\* no position, no pending order and no order sent.
C39_PositionsSizedAndPriced ==
    /\ [](\A i \in 1..Len(positions) :
              /\ ~IsNaN(positions[i].size) /\ positions[i].size > 0
              /\ ~IsNaN(positions[i].entry_price)
              /\ positions[i].entry_price > 0)
    /\ [][(pc = "trades" /\ signal'.outcome = "size_too_small") =>
            UNCHANGED <<positions, pending_orders, trades_executed,
                        sent>>]_vars

====
